---- MODULE Spec2Model ----
(***************************************************************************)
(* vidkit, src/utils.py: the detect-watermark command.                     *)
(*                                                                         *)
(* main() parses --region and calls detect_watermark(), which selects an   *)
(* OCR engine, opens the video, samples frame indices, runs OCR on every   *)
(* sampled frame, releases the decoder and aggregates the observations     *)
(* into ranked watermark candidates.                                       *)
(*                                                                         *)
(* Conventions of the model:                                               *)
(*   - a Python str is a sequence of one-character strings;                *)
(*   - Python None is the empty tuple <<>> (None below), except for the    *)
(*     --region argument, whose absence is NoArg;                          *)
(*   - a Python dict is a function whose DOMAIN is the set of its keys;    *)
(*     text_stats, whose iteration order the code relies on, is the        *)
(*     sequence of its entries in insertion order;                         *)
(*   - a confidence is an integer number of hundredths (0.9 is 90), a      *)
(*     mean confidence the exact fraction [num, den], and --padding an     *)
(*     integer number of eighths, which keeps mw * pad exact in binary     *)
(*     floating point as well;                                             *)
(*   - the decoder and the OCR engine are the environment: what they       *)
(*     yield for the i-th sampled frame is the input video[i].             *)
(***************************************************************************)
EXTENDS Integers, Sequences, FiniteSets

VARIABLES
    pc,              \* position of the run: main, detect, open, sample, frames, done, exit, raised
    argv_region,     \* args.region: the --region string, or NoArg
    engine,          \* args.engine
    num_frames,      \* args.frames
    padding,         \* args.padding, in eighths
    min_confidence,  \* args.confidence, in hundredths
    frame_count,     \* what the decoder reports as CAP_PROP_FRAME_COUNT
    video,           \* video[i]: what decoding and OCR of the i-th sampled frame yield
    region,          \* main's region: None or <<x, y, w, h>>
    ocr_engine,      \* detect_watermark's ocr_engine
    cap,             \* the decoder handle: "none", "open", "released"
    total_frames,
    frame_indices,
    fi,              \* number of entries of frame_indices the loop has consumed
    decoded,         \* how many of them cap.read() delivered
    detected_texts,
    text_stats,
    result,          \* the dict detect_watermark returns, None before
    err              \* the last message printed to stderr, "" when none

vars == <<pc, argv_region, engine, num_frames, padding, min_confidence, frame_count,
          video, region, ocr_engine, cap, total_frames, frame_indices, fi, decoded,
          detected_texts, text_stats, result, err>>

None == <<>>
NoArg == <<"<absent>">>

Max(a, b) == IF a >= b THEN a ELSE b

\* -------------------------------------------------------------------------
\* Bounds of the model.
\* -------------------------------------------------------------------------
MaxNumFrames == 5       \* largest --frames of the sampler and consistency runs
MaxFrameCount == 13     \* largest frame count the decoder reports
MaxHits == 2            \* most detections the OCR engine returns for one frame
MaxFields == 5          \* most comma-separated fields of a --region string

\* -------------------------------------------------------------------------
\* Strings.
\* -------------------------------------------------------------------------
Whitespace == {" "}
Digits == {"0", "1", "2", "3", "4", "5", "6", "7", "8", "9"}

RECURSIVE LStrip(_)
LStrip(s) == IF s # <<>> /\ Head(s) \in Whitespace THEN LStrip(Tail(s)) ELSE s

RECURSIVE RStrip(_)
RStrip(s) ==
    IF s # <<>> /\ s[Len(s)] \in Whitespace THEN RStrip(SubSeq(s, 1, Len(s) - 1)) ELSE s

\* str.strip()
Strip(s) == RStrip(LStrip(s))

\* str.split(','): the fields between the commas; always at least one field.
RECURSIVE SplitFrom(_, _, _)
SplitFrom(s, i, cur) ==
    IF i > Len(s) THEN <<cur>>
    ELSE IF s[i] = "," THEN <<cur>> \o SplitFrom(s, i + 1, <<>>)
    ELSE SplitFrom(s, i + 1, Append(cur, s[i]))

Split(s) == SplitFrom(s, 1, <<>>)

DigitValue(c) ==
    CASE c = "0" -> 0 [] c = "1" -> 1 [] c = "2" -> 2 [] c = "3" -> 3 [] c = "4" -> 4
      [] c = "5" -> 5 [] c = "6" -> 6 [] c = "7" -> 7 [] c = "8" -> 8 [] c = "9" -> 9

AllDigits(s) == s # <<>> /\ \A i \in 1..Len(s) : s[i] \in Digits

\* Whether int(s) succeeds: surrounding whitespace, an optional sign, digits.
IsIntLiteral(s) ==
    LET t == Strip(s)
    IN  /\ t # <<>>
        /\ IF Head(t) \in {"-", "+"} THEN AllDigits(Tail(t)) ELSE AllDigits(t)

RECURSIVE DecimalValue(_)
DecimalValue(s) ==
    IF s = <<>> THEN 0 ELSE 10 * DecimalValue(SubSeq(s, 1, Len(s) - 1)) + DigitValue(s[Len(s)])

\* int(s), for a string int() accepts.
IntOf(s) ==
    LET t == Strip(s)
    IN  IF Head(t) = "-" THEN 0 - DecimalValue(Tail(t))
        ELSE IF Head(t) = "+" THEN DecimalValue(Tail(t))
        ELSE DecimalValue(t)

\* -------------------------------------------------------------------------
\* main(), lines 410-421: --region.
\* -------------------------------------------------------------------------

\* Whether [int(x) for x in args.region.split(',')] raises ValueError.
RegionRaises(arg) ==
    /\ arg # NoArg
    /\ arg # <<>>
    /\ \E i \in 1..Len(Split(arg)) : ~IsIntLiteral(Split(arg)[i])

\* main's region when nothing was raised: the four integers, else None.
ParseRegion(arg) ==
    IF arg = NoArg \/ arg = <<>> THEN None
    ELSE LET coords == [i \in 1..Len(Split(arg)) |-> IntOf(Split(arg)[i])]
         IN  IF Len(coords) = 4 THEN coords ELSE None

Main ==
    /\ pc = "main"
    /\ IF RegionRaises(argv_region)
       THEN /\ err' = "Error: Invalid region format. Use: x,y,width,height"
            /\ pc' = "exit"
            /\ UNCHANGED region
       ELSE /\ region' = ParseRegion(argv_region)
            /\ pc' = "detect"
            /\ UNCHANGED err
    /\ UNCHANGED <<argv_region, engine, num_frames, padding, min_confidence, frame_count,
                   video, ocr_engine, cap, total_frames, frame_indices, fi, decoded,
                   detected_texts, text_stats, result>>

\* -------------------------------------------------------------------------
\* detect_watermark(), lines 84-148: the imports and the OCR engine.
\* -------------------------------------------------------------------------

\* The engine the if/elif chain of lines 128-148 settles on, "none" when it exits.
EngineChoice(eng, easyocr_ok, tesseract_ok) ==
    IF eng \in {"auto", "easyocr"} /\ easyocr_ok THEN "easyocr"
    ELSE IF eng \in {"auto", "tesseract"} /\ tesseract_ok THEN "tesseract"
    ELSE "none"

EngineError(eng) ==
    IF eng = "easyocr" THEN "Error: EasyOCR initialization failed"
    ELSE IF eng = "tesseract" THEN "Error: Tesseract initialization failed"
    ELSE "Error: No working OCR engine found."

SelectEngine ==
    /\ pc = "detect"
    /\ \E cv2_ok, easyocr_ok, tesseract_ok \in BOOLEAN :
         IF ~cv2_ok
         THEN /\ err' = "Error: OpenCV not found. Please install: pip install opencv-python"
              /\ pc' = "exit"
              /\ UNCHANGED ocr_engine
         ELSE IF EngineChoice(engine, easyocr_ok, tesseract_ok) = "none"
         THEN /\ err' = EngineError(engine)
              /\ pc' = "exit"
              /\ UNCHANGED ocr_engine
         ELSE /\ ocr_engine' = EngineChoice(engine, easyocr_ok, tesseract_ok)
              /\ pc' = "open"
              /\ UNCHANGED err
    /\ UNCHANGED <<argv_region, engine, num_frames, padding, min_confidence, frame_count,
                   video, region, cap, total_frames, frame_indices, fi, decoded,
                   detected_texts, text_stats, result>>

\* -------------------------------------------------------------------------
\* Lines 150-161: the video file and the decoder handle.
\* -------------------------------------------------------------------------
OpenVideo ==
    /\ pc = "open"
    /\ \E exists, opened \in BOOLEAN :
         IF ~exists
         THEN /\ err' = "Error: Video file not found"
              /\ pc' = "exit"
              /\ UNCHANGED <<cap, total_frames>>
         ELSE IF ~opened
         THEN /\ err' = "Error: Cannot open video file"
              /\ pc' = "exit"
              /\ UNCHANGED <<cap, total_frames>>
         ELSE /\ cap' = "open"
              /\ total_frames' = frame_count
              /\ pc' = "sample"
              /\ UNCHANGED err
    /\ UNCHANGED <<argv_region, engine, num_frames, padding, min_confidence, frame_count,
                   video, region, ocr_engine, frame_indices, fi, decoded,
                   detected_texts, text_stats, result>>

\* -------------------------------------------------------------------------
\* Lines 163-173: the frame sampler.
\* -------------------------------------------------------------------------
\* range(num_frames) in place of range(1, num_frames + 1).
FrameIndicesFromZero(total, n) ==
    IF total > 0 THEN [i \in 1..n |-> (i - 1) * Max(1, total \div (n + 1))] ELSE <<0>>

FrameIndices(total, n) ==
    IF total > 0 THEN [i \in 1..n |-> i * Max(1, total \div (n + 1))] ELSE <<0>>

Sample ==
    /\ pc = "sample"
    /\ frame_indices' = FrameIndices(total_frames, num_frames)
    /\ detected_texts' = <<>>
    /\ fi' = 0
    /\ pc' = "frames"
    /\ UNCHANGED <<argv_region, engine, num_frames, padding, min_confidence, frame_count,
                   video, region, ocr_engine, cap, total_frames, decoded, text_stats,
                   result, err>>

\* -------------------------------------------------------------------------
\* Lines 175-246: one sampled frame.
\* -------------------------------------------------------------------------

\* What the i-th sampled frame yields; a frame the input does not describe
\* cannot be read.
FrameOutcome(i) ==
    IF i \in DOMAIN video THEN video[i] ELSE [kind |-> "read_fail", hits |-> <<>>]

\* offset_x, offset_y of lines 181-184.
OffsetX(reg) == IF reg # None THEN reg[1] ELSE 0
OffsetY(reg) == IF reg # None THEN reg[2] ELSE 0

\* Lines 226-244: what the EasyOCR branch appends for one frame. hit.box is the
\* rectangle the polygon spans (None for a polygon the code cannot read), so
\* min(xs) = x and max(xs) = x + w.
EasyOcrItem(hit, frame_idx, reg) ==
    [text       |-> Strip(hit.text),
     confidence |-> hit.conf,
     frame      |-> frame_idx,
     bbox_xywh  |-> IF hit.box = None THEN None
                    ELSE <<hit.box[1] + OffsetX(reg), hit.box[2] + OffsetY(reg),
                           Max(1, hit.box[3]), Max(1, hit.box[4])>>]

RECURSIVE EasyOcrCollect(_, _, _, _)
EasyOcrCollect(hits, frame_idx, reg, minconf) ==
    IF hits = <<>> THEN <<>>
    ELSE (IF Head(hits).conf >= minconf
          THEN <<EasyOcrItem(Head(hits), frame_idx, reg)>> ELSE <<>>)
         \o EasyOcrCollect(Tail(hits), frame_idx, reg, minconf)

\* Lines 204-222: what the Tesseract branch appends for one frame. hit.conf is
\* on Tesseract's 0..100 scale; a row whose box cannot be read raises inside
\* the loop, which the outer except ends with a warning.
TesseractItem(hit, frame_idx, reg) ==
    [text       |-> Strip(hit.text),
     confidence |-> hit.conf,
     frame      |-> frame_idx,
     bbox_xywh  |-> <<hit.box[1] + OffsetX(reg), hit.box[2] + OffsetY(reg),
                      hit.box[3], hit.box[4]>>]

RECURSIVE TesseractCollect(_, _, _, _)
TesseractCollect(hits, frame_idx, reg, minconf) ==
    IF hits = <<>> THEN <<>>
    ELSE IF Head(hits).text # <<>> /\ Strip(Head(hits).text) # <<>>
            /\ Head(hits).conf > minconf
         THEN IF Head(hits).box = None THEN <<>>
              ELSE <<TesseractItem(Head(hits), frame_idx, reg)>>
                   \o TesseractCollect(Tail(hits), frame_idx, reg, minconf)
         ELSE TesseractCollect(Tail(hits), frame_idx, reg, minconf)

Collect(eng, hits, frame_idx, reg, minconf) ==
    IF eng = "tesseract" THEN TesseractCollect(hits, frame_idx, reg, minconf)
    ELSE EasyOcrCollect(hits, frame_idx, reg, minconf)

FrameUnchanged ==
    UNCHANGED <<argv_region, engine, num_frames, padding, min_confidence, frame_count,
                video, region, ocr_engine, cap, total_frames, frame_indices,
                text_stats, result>>

\* Lines 177-179: cap.read() fails, the frame is skipped.
ReadFails ==
    /\ pc = "frames"
    /\ fi < Len(frame_indices)
    /\ FrameOutcome(fi + 1).kind = "read_fail"
    /\ fi' = fi + 1
    /\ UNCHANGED <<pc, decoded, detected_texts, err>>
    /\ FrameUnchanged

\* Lines 181-187: the crop or cv2.cvtColor raises; nothing catches it, so it
\* leaves detect_watermark and main.
ConvertRaises ==
    /\ pc = "frames"
    /\ fi < Len(frame_indices)
    /\ FrameOutcome(fi + 1).kind = "cvt_error"
    /\ decoded' = decoded + 1
    /\ pc' = "raised"
    /\ err' = "cv2.error"
    /\ UNCHANGED <<fi, detected_texts>>
    /\ FrameUnchanged

\* Lines 221-222, 245-246: the engine raises, a warning is printed.
OcrRaises ==
    /\ pc = "frames"
    /\ fi < Len(frame_indices)
    /\ FrameOutcome(fi + 1).kind = "ocr_error"
    /\ decoded' = decoded + 1
    /\ fi' = fi + 1
    /\ err' = "Warning: OCR error"
    /\ UNCHANGED <<pc, detected_texts>>
    /\ FrameUnchanged

\* Lines 189-244: the engine returns its detections.
OcrReturns ==
    /\ pc = "frames"
    /\ fi < Len(frame_indices)
    /\ FrameOutcome(fi + 1).kind = "ok"
    /\ decoded' = decoded + 1
    /\ fi' = fi + 1
    /\ detected_texts' = detected_texts
          \o Collect(ocr_engine, FrameOutcome(fi + 1).hits, frame_indices[fi + 1],
                     region, min_confidence)
    /\ UNCHANGED <<pc, err>>
    /\ FrameUnchanged

\* -------------------------------------------------------------------------
\* Lines 257-275: text_stats.
\* -------------------------------------------------------------------------
normalize_text(s) == Strip(s)

\* dict.get(key, default)
Get(d, key, default) == IF key \in DOMAIN d THEN d[key] ELSE default

\* d[key] = value
Put(d, key, value) == [k \in DOMAIN d \cup {key} |-> IF k = key THEN value ELSE d[k]]

EmptyDict == [k \in {} |-> 0]

\* Lines 271-273: the confidence kept for the frame.
FrameConfAfter(frame_conf, frame_no, confidence) ==
    IF confidence > Get(frame_conf, frame_no, 0)
    THEN Put(frame_conf, frame_no, confidence) ELSE frame_conf

\* Lines 274-275: the box kept for the frame.
FrameBboxAfter(frame_bbox, frame_no, bbox_xywh) ==
    IF bbox_xywh # None THEN Put(frame_bbox, frame_no, bbox_xywh) ELSE frame_bbox

\* Position of text's entry in stats, 0 when it has none.
EntryOf(stats, text) ==
    IF \E k \in 1..Len(stats) : stats[k].text = text
    THEN CHOOSE k \in 1..Len(stats) : stats[k].text = text
    ELSE 0

\* text_stats.setdefault(text, {...})
SetDefault(stats, text) ==
    IF EntryOf(stats, text) # 0 THEN stats
    ELSE Append(stats, [text |-> text, occurrences |-> 0,
                        frame_conf |-> EmptyDict, frame_bbox |-> EmptyDict])

\* One pass of the loop of lines 261-275.
UpdateStats(stats, item) ==
    LET text == normalize_text(item.text)
    IN  IF text = <<>> THEN stats
        ELSE LET s1 == SetDefault(stats, text)
                 k == EntryOf(s1, text)
             IN  [s1 EXCEPT
                    ![k].occurrences = @ + 1,
                    ![k].frame_conf = FrameConfAfter(@, item.frame, item.confidence),
                    ![k].frame_bbox = FrameBboxAfter(@, item.frame, item.bbox_xywh)]

RECURSIVE FoldStats(_, _)
FoldStats(stats, items) ==
    IF items = <<>> THEN stats ELSE FoldStats(UpdateStats(stats, Head(items)), Tail(items))

TextStats(items) == FoldStats(<<>>, items)

\* -------------------------------------------------------------------------
\* Lines 277-309: the candidates.
\* -------------------------------------------------------------------------

\* sorted(xs), ascending, for a list of integers.
RECURSIVE InsertAscending(_, _)
InsertAscending(s, x) ==
    IF s = <<>> THEN <<x>>
    ELSE IF x < Head(s) THEN <<x>> \o s
    ELSE <<Head(s)>> \o InsertAscending(Tail(s), x)

RECURSIVE Sorted(_)
Sorted(xs) ==
    IF xs = <<>> THEN <<>> ELSE InsertAscending(Sorted(SubSeq(xs, 1, Len(xs) - 1)), xs[Len(xs)])

\* sorted(d.keys())
RECURSIVE SortedKeys(_)
SortedKeys(S) ==
    IF S = {} THEN <<>>
    ELSE LET m == CHOOSE x \in S : \A y \in S : x <= y
         IN  <<m>> \o SortedKeys(S \ {m})

\* sorted(xs)[(len(xs) - 1)//2]: the lower of the two middle elements.
LowerMiddleOfSorted(xs) == Sorted(xs)[((Len(xs) - 1) \div 2) + 1]

\* sorted(xs)[len(xs)//2], with Python's 0-based index.
MiddleOfSorted(xs) == Sorted(xs)[(Len(xs) \div 2) + 1]

\* int(x / d) for integers: truncation toward zero.
TruncDiv(a, d) == IF a >= 0 THEN a \div d ELSE 0 - ((0 - a) \div d)

\* math.floor in place of math.ceil.
ConsistencyThresholdFloor(n) == IF n > 0 THEN (3 * n) \div 5 ELSE 0

\* Line 278: int(math.ceil(num_frames * 0.6)), 0 for a count that is not positive.
ConsistencyThreshold(n) == IF n > 0 THEN (3 * n + 4) \div 5 ELSE 0

\* Line 306.
AppearsConsistently(frame_frequency, n) ==
    frame_frequency >= Max(2, ConsistencyThreshold(n))

\* Line 285: the boxes of the frames that have one, in frame order.
RECURSIVE BoxesOf(_, _)
BoxesOf(frames, frame_bbox) ==
    IF frames = <<>> THEN <<>>
    ELSE (IF Head(frames) \in DOMAIN frame_bbox THEN <<frame_bbox[Head(frames)]>> ELSE <<>>)
         \o BoxesOf(Tail(frames), frame_bbox)

\* Lines 286-299. pad8 is max(0.0, padding) in eighths.
SuggestedRegion(bboxes, pad) ==
    IF bboxes = <<>> THEN None
    ELSE LET mx == MiddleOfSorted([i \in 1..Len(bboxes) |-> bboxes[i][1]])
             my == MiddleOfSorted([i \in 1..Len(bboxes) |-> bboxes[i][2]])
             mw == MiddleOfSorted([i \in 1..Len(bboxes) |-> bboxes[i][3]])
             mh == MiddleOfSorted([i \in 1..Len(bboxes) |-> bboxes[i][4]])
             pad8 == Max(0, pad)
             px == TruncDiv(mw * pad8, 8)
             py == TruncDiv(mh * pad8, 8)
         IN  <<Max(0, mx - px), Max(0, my - py), mw + 2 * px, mh + 2 * py>>

RECURSIVE SumOver(_, _)
SumOver(d, keys) ==
    IF keys = <<>> THEN 0 ELSE d[Head(keys)] + SumOver(d, Tail(keys))

\* Lines 280-309 for one entry of text_stats; the entry is kept when
\* frame_frequency >= 2 (line 282).
Candidate(info, n, pad) ==
    LET frames == SortedKeys(DOMAIN info.frame_conf)
        frame_frequency == Len(frames)
    IN  [text                 |-> info.text,
         frequency            |-> frame_frequency,
         confidence           |-> [num |-> SumOver(info.frame_conf, frames),
                                   den |-> Max(1, frame_frequency)],
         frames               |-> frames,
         appears_consistently |-> AppearsConsistently(frame_frequency, n),
         occurrences          |-> info.occurrences,
         region               |-> SuggestedRegion(BoxesOf(frames, info.frame_bbox), pad)]

\* frame_frequency < 1 in place of frame_frequency < 2.
KeptSingleton(info) == Cardinality(DOMAIN info.frame_conf) >= 1

\* Line 282: the frequency filter.
Kept(info) == Cardinality(DOMAIN info.frame_conf) >= 2

RECURSIVE Candidates(_, _, _)
Candidates(stats, n, pad) ==
    IF stats = <<>> THEN <<>>
    ELSE (IF Kept(Head(stats)) THEN <<Candidate(Head(stats), n, pad)>> ELSE <<>>)
         \o Candidates(Tail(stats), n, pad)

\* -------------------------------------------------------------------------
\* Line 311: the ranking.
\* -------------------------------------------------------------------------
BoolRank(b) == IF b THEN 1 ELSE 0

ConfLess(a, b) == a.num * b.den < b.num * a.den

\* Whether a's key (appears_consistently, frequency, confidence) is below b's.
KeyLess(a, b) ==
    \/ BoolRank(a.appears_consistently) < BoolRank(b.appears_consistently)
    \/ /\ a.appears_consistently = b.appears_consistently
       /\ \/ a.frequency < b.frequency
          \/ /\ a.frequency = b.frequency
             /\ ConfLess(a.confidence, b.confidence)

\* The sort without reverse=True: ascending.
RECURSIVE InsertRankedAscending(_, _)
InsertRankedAscending(s, x) ==
    IF s = <<>> THEN <<x>>
    ELSE IF KeyLess(x, Head(s)) THEN <<x>> \o s
    ELSE <<Head(s)>> \o InsertRankedAscending(Tail(s), x)

\* list.sort(key=..., reverse=True) is stable: x goes behind every element
\* whose key is not below its own.
RECURSIVE InsertRanked(_, _)
InsertRanked(s, x) ==
    IF s = <<>> THEN <<x>>
    ELSE IF KeyLess(Head(s), x) THEN <<x>> \o s
    ELSE <<Head(s)>> \o InsertRanked(Tail(s), x)

RECURSIVE Ranked(_)
Ranked(ws) ==
    IF ws = <<>> THEN <<>> ELSE InsertRanked(Ranked(SubSeq(ws, 1, Len(ws) - 1)), ws[Len(ws)])

\* -------------------------------------------------------------------------
\* Lines 248-318: release, aggregate, return.
\* -------------------------------------------------------------------------
Watermarks(items, n, pad) == Ranked(Candidates(TextStats(items), n, pad))

\* The returned dict (video_duration, which no rule reads, is left out).
Aggregate(items, n, pad, analyzed) ==
    IF items = <<>>
    THEN [watermark_found |-> FALSE,
          watermarks      |-> <<>>,
          message         |-> "No watermark text detected"]
    ELSE [watermark_found       |-> Len(Watermarks(items, n, pad)) > 0,
          watermarks            |-> Watermarks(items, n, pad),
          total_frames_analyzed |-> analyzed]

Finish ==
    /\ pc = "frames"
    /\ fi = Len(frame_indices)
    /\ cap' = "released"
    /\ text_stats' = IF detected_texts = <<>> THEN <<>> ELSE TextStats(detected_texts)
    /\ result' = Aggregate(detected_texts, num_frames, padding, Len(frame_indices))
    /\ pc' = "done"
    /\ UNCHANGED <<argv_region, engine, num_frames, padding, min_confidence, frame_count,
                   video, region, ocr_engine, total_frames, frame_indices, fi, decoded,
                   detected_texts, err>>

Next ==
    \/ Main
    \/ SelectEngine
    \/ OpenVideo
    \/ Sample
    \/ ReadFails
    \/ ConvertRaises
    \/ OcrRaises
    \/ OcrReturns
    \/ Finish

\* -------------------------------------------------------------------------
\* Inputs.
\* -------------------------------------------------------------------------

\* The sequences over S of length at most m.
BoundedSeq(S, m) == UNION {[1..k -> S] : k \in 0..m}

\* What the OCR engine may report: every text, confidence and box of the
\* given sets.
RawHits(Texts, Confs, Boxes) == [text : Texts, conf : Confs, box : Boxes]

Failures == {[kind |-> k, hits |-> <<>>] : k \in {"read_fail", "cvt_error", "ocr_error"}}

\* A frame that decodes and on which the engine reports one of Reports.
Readable(Reports) == {[kind |-> "ok", hits |-> h] : h \in Reports}

\* Videos of n sampled frames: every frame any of Outcomes.
Videos(n, Outcomes) == [1..n -> Outcomes]

\* Videos of n sampled frames that all yield the same.
UniformVideos(n, Outcomes) == {[i \in 1..n |-> o] : o \in Outcomes}

\* How many frames the sampler visits (one probe when the decoder reports none).
Visited(count, n) == IF count > 0 THEN n ELSE 1

\* The state main() starts in, for one choice of the inputs.
Start(arg, eng, n, pad, minconf, count, vid) ==
    /\ pc = "main"
    /\ argv_region = arg
    /\ engine = eng
    /\ num_frames = n
    /\ padding = pad
    /\ min_confidence = minconf
    /\ frame_count = count
    /\ video = vid
    /\ region = None
    /\ ocr_engine = "none"
    /\ cap = "none"
    /\ total_frames = 0
    /\ frame_indices = <<>>
    /\ fi = 0
    /\ decoded = 0
    /\ detected_texts = <<>>
    /\ text_stats = <<>>
    /\ result = None
    /\ err = ""

TextA == <<"A">>
TextB == <<"B">>
Box1 == <<0, 1, 16, 8>>
Box2 == <<3, 0, 8, 24>>
Box3 == <<1, 4, 24, 16>>

Region1234 == <<"1", ",", "2", ",", "3", ",", "4">>

\* -------------------------------------------------------------------------
\* The sampler: every requested count and every reported frame count, on
\* videos whose frames all yield the same.
\* -------------------------------------------------------------------------
InitSampler ==
    \E n \in 0..MaxNumFrames, count \in 0..MaxFrameCount, arg \in {NoArg} :
      \E vid \in UniformVideos(Visited(count, n),
                    Failures \cup Readable({<<>>, <<[text |-> TextA, conf |-> 90, box |-> Box1]>>})) :
        Start(arg, "auto", n, 1, 50, count, vid)

SpecSampler == InitSampler /\ [][Next]_vars

\* C8: once the sampler has run, frame_indices is <<0>> when the decoder
\* reports no frame, and for a positive frame count and a positive requested
\* count n it is step, 2*step, ..., n*step with step = max(1, total_frames //
\* (n + 1)): n indices, all positive, strictly increasing, none clamped to
\* total_frames.
C8_SamplerIndices ==
    pc \in {"frames", "done", "raised"} =>
      /\ total_frames = 0 => frame_indices = <<0>>
      /\ (total_frames > 0 /\ num_frames > 0) =>
           LET q == total_frames \div (num_frames + 1)
               step == IF q >= 1 THEN q ELSE 1
           IN  /\ Len(frame_indices) = num_frames
               /\ \A i \in 1..num_frames : frame_indices[i] = i * step
               /\ \A i \in 1..num_frames : frame_indices[i] > 0
               /\ \A i \in 1..(num_frames - 1) : frame_indices[i] < frame_indices[i + 1]

\* A run that sampled five indices of a two-frame video: 1..5, the last
\* three past the end.
C8_Witness ==
    /\ pc = "frames"
    /\ total_frames = 2
    /\ num_frames = 5
    /\ frame_indices = <<1, 2, 3, 4, 5>>

\* -------------------------------------------------------------------------
\* The command line: every --region string of at most MaxFields fields.
\* -------------------------------------------------------------------------
RECURSIVE Join(_)
Join(fields) ==
    IF fields = <<>> THEN <<>>
    ELSE IF Len(fields) = 1 THEN fields[1]
    ELSE fields[1] \o <<",">> \o Join(Tail(fields))

RegionFields == {<<"7">>, <<" ", "1", "2">>, <<"x">>, <<>>}

RegionArgs == {NoArg} \cup {Join(f) : f \in BoundedSeq(RegionFields, MaxFields)}

InitCli ==
    \E arg \in RegionArgs :
      \E vid \in UniformVideos(1,
                    Failures \cup Readable({<<[text |-> TextA, conf |-> 90, box |-> Box1]>>})) :
        Start(arg, "auto", 1, 1, 50, 3, vid)

SpecCli == InitCli /\ [][Next]_vars

\* Exactly four comma-separated integers.
FourIntegers(arg) ==
    /\ arg # NoArg
    /\ Len(Split(arg)) = 4
    /\ \A i \in 1..4 : IsIntLiteral(Split(arg)[i])

\* C9: a --region that is present (given, and not the empty string, which
\* main takes for absent) and is not exactly four comma-separated integers ends the command with the region format error before detection
\* starts, and detection runs with a region only for four integers.
C9_MalformedRegionRejected ==
    /\ (argv_region \notin {NoArg, <<>>} /\ ~FourIntegers(argv_region) /\ pc # "main") =>
          (pc = "exit" /\ err = "Error: Invalid region format. Use: x,y,width,height")
    /\ (pc \notin {"main", "exit"} /\ region # None) => FourIntegers(argv_region)

\* -------------------------------------------------------------------------
\* Several detections of one text in a frame: every sequence of at most
\* MaxHits detections per frame, over three confidences and two boxes.
\* -------------------------------------------------------------------------
HitFrames == {1, 2}

HitReports == BoundedSeq(RawHits({TextA}, {0, 40, 90}, {Box1, Box2}), MaxHits)

InitHits ==
    \E n \in HitFrames :
      \E vid \in Videos(n, Readable(HitReports)) \cup UniformVideos(n, Failures) :
        Start(NoArg, "easyocr", n, 1, 0, 12, vid)

SpecHits == InitHits /\ [][Next]_vars

\* -------------------------------------------------------------------------
\* Consistency: up to MaxNumFrames requested frames, each of which fails to
\* decode, fails in conversion or in OCR, shows nothing, or shows the text.
\* -------------------------------------------------------------------------
HitA == [text |-> TextA, conf |-> 90, box |-> Box1]

Init ==
    \E n \in 0..MaxNumFrames, count \in {0, 12} :
      \E vid \in Videos(Visited(count, n), Failures \cup Readable({<<>>, <<HitA>>})) :
        Start(NoArg, "tesseract", n, 1, 50, count, vid)

Spec == Init /\ [][Next]_vars

\* The candidates of the returned dict, as a set of positions.
Returned == IF pc = "done" THEN 1..Len(result.watermarks) ELSE {}

\* k = ceil(0.6 * n), for n >= 0: the least integer with 5 * k >= 3 * n.
IsCeilOfSixTenths(k, n) == 5 * k >= 3 * n /\ 5 * (k - 1) < 3 * n

\* C4: for a positive requested count num_frames, a candidate appears
\* consistently exactly when its frequency is at least max(2, ceil(0.6 *
\* num_frames)), whatever the number of frames that decoded; with five
\* requested frames three frames are enough and two are not.
C4_ConsistencyUsesRequestedCount ==
    (pc = "done" /\ num_frames > 0) =>
      \A i \in Returned :
        LET c == result.watermarks[i]
        IN  /\ \A k \in 0..num_frames :
                 IsCeilOfSixTenths(k, num_frames) =>
                   (c.appears_consistently <=> (c.frequency >= 2 /\ c.frequency >= k))
            /\ (num_frames = 5 /\ c.frequency = 3) => c.appears_consistently
            /\ (num_frames = 5 /\ c.frequency = 2) => ~c.appears_consistently

\* Five frames requested, two decoded, the text in both: not consistent.
C4_Witness ==
    /\ pc = "done"
    /\ num_frames = 5
    /\ decoded = 2
    /\ Len(result.watermarks) = 1
    /\ result.watermarks[1].frequency = 2
    /\ ~result.watermarks[1].appears_consistently

\* C6: a run that reaches the aggregation returns watermark_found = FALSE
\* with an empty candidate list and a message when no candidate survives,
\* and watermark_found = TRUE exactly when the list is not empty.
C6_EmptyResultHasMessage ==
    pc = "done" =>
      /\ result.watermark_found <=> (result.watermarks # <<>>)
      /\ result.watermarks = <<>> =>
           (~result.watermark_found /\ "message" \in DOMAIN result)

\* -------------------------------------------------------------------------
\* What the observations say, read off detected_texts alone.
\* -------------------------------------------------------------------------
Observations == 1..Len(detected_texts)

\* The observations of text t in frame f.
HitsOf(t, f) ==
    {i \in Observations :
        Strip(detected_texts[i].text) = t /\ detected_texts[i].frame = f}

\* The frames that hold at least one observation of text t.
ObservedFrames(t) ==
    {detected_texts[i].frame : i \in {j \in Observations : Strip(detected_texts[j].text) = t}}

\* The non-empty trimmed texts observed.
ObservedTexts == {Strip(detected_texts[i].text) : i \in Observations} \ {<<>>}

\* Whether c is the largest confidence among the observations of t in f.
IsBestConfidence(c, t, f) ==
    /\ \E i \in HitsOf(t, f) : detected_texts[i].confidence = c
    /\ \A i \in HitsOf(t, f) : detected_texts[i].confidence <= c

\* -------------------------------------------------------------------------
\* The frequency filter: one text, two confidences, up to MaxHits detections
\* in each of up to MaxFilterFrames frames.
\* -------------------------------------------------------------------------
MaxFilterFrames == 3

FilterReports == BoundedSeq(RawHits({TextA}, {40, 90}, {Box1}), MaxHits)

InitFilter ==
    \E n \in 1..MaxFilterFrames :
      \E vid \in Videos(n, Readable(FilterReports)) \cup UniformVideos(n, Failures) :
        Start(NoArg, "auto", n, 1, 0, 12, vid)

SpecFilter == InitFilter /\ [][Next]_vars

\* C3: every returned candidate has frequency >= 2, a strictly ascending
\* frames list of that length, and its text was observed in at least two
\* distinct frames, namely those of the list; so a text observed in a single
\* frame is never returned, whatever its confidence and its number of hits.
C3_SingletonsDiscarded ==
    \A i \in Returned :
      LET c == result.watermarks[i]
      IN  /\ c.frequency >= 2
          /\ Len(c.frames) = c.frequency
          /\ \A j \in 1..(Len(c.frames) - 1) : c.frames[j] < c.frames[j + 1]
          /\ {c.frames[j] : j \in 1..Len(c.frames)} \subseteq ObservedFrames(c.text)
          /\ Cardinality(ObservedFrames(c.text)) >= 2

\* Two hits of the text at confidence 0.9, both in one frame, and nothing
\* returned.
C3_Witness ==
    /\ pc = "done"
    /\ Len(detected_texts) = 2
    /\ detected_texts[1].confidence = 90
    /\ detected_texts[2].confidence = 90
    /\ Cardinality(ObservedFrames(TextA)) = 1
    /\ result.watermarks = <<>>

\* -------------------------------------------------------------------------
\* Several detections of a text in a frame (SpecHits).
\* -------------------------------------------------------------------------

\* C2: every observed text has a text_stats entry whose frame keys are the
\* frames that hold an observation of it, each with the largest confidence
\* observed there, and a returned candidate's frequency is the number of
\* those frames.
C2_FrequencyCountsObservedFrames ==
    pc = "done" =>
      /\ \A t \in ObservedTexts :
           \E k \in 1..Len(text_stats) :
             /\ text_stats[k].text = t
             /\ DOMAIN text_stats[k].frame_conf = ObservedFrames(t)
             /\ \A f \in ObservedFrames(t) :
                  IsBestConfidence(text_stats[k].frame_conf[f], t, f)
      /\ \A i \in Returned :
           result.watermarks[i].frequency =
             Cardinality(ObservedFrames(result.watermarks[i].text))

\* C10: the box text_stats holds for a frame is the box of an observation of
\* that text in that frame with the largest confidence.
C10_BoxOfBestConfidence ==
    pc = "done" =>
      \A k \in 1..Len(text_stats) :
        \A f \in DOMAIN text_stats[k].frame_bbox :
          \E i \in HitsOf(text_stats[k].text, f) :
            /\ detected_texts[i].bbox_xywh = text_stats[k].frame_bbox[f]
            /\ IsBestConfidence(detected_texts[i].confidence, text_stats[k].text, f)

\* The permutations of 1..n.
Orderings(n) == {p \in [1..n -> 1..n] : \A i, j \in 1..n : p[i] = p[j] => i = j}

\* C1: aggregating any permutation of the observation list returns what the
\* run returned: the same candidates in the same order.
C1_OrderIndependent ==
    pc = "done" =>
      \A p \in Orderings(Len(detected_texts)) :
        Aggregate([i \in 1..Len(detected_texts) |-> detected_texts[p[i]]],
                  num_frames, padding, Len(frame_indices)) = result

\* -------------------------------------------------------------------------
\* The suggested region: one detection per frame, over three boxes and a
\* polygon EasyOCR's branch cannot read, with and without --region, for
\* three paddings.
\* -------------------------------------------------------------------------
MaxRegionFrames == 3

RegionReports ==
    {<<>>} \cup {<<h>> : h \in RawHits({TextA}, {90}, {Box1, Box2, Box3, None})}

InitRegion ==
    \E n \in 1..MaxRegionFrames, pad \in {0, 1, 3}, arg \in {NoArg, Region1234} :
      \E vid \in Videos(n, Failures \cup Readable(RegionReports)) :
        Start(arg, "easyocr", n, pad, 50, 12, vid)

SpecRegion == InitRegion /\ [][Next]_vars

\* The text_stats entry of text t.
StatsOf(t) == text_stats[CHOOSE k \in 1..Len(text_stats) : text_stats[k].text = t]

\* The frames of candidate c that have a recorded box.
BoxedFrames(c) ==
    {c.frames[j] : j \in 1..Len(c.frames)} \cap DOMAIN StatsOf(c.text).frame_bbox

\* The k-th smallest of coordinate j over the recorded boxes of c's frames.
OrderStatistic(c, j, k) ==
    LET box == StatsOf(c.text).frame_bbox
        F == BoxedFrames(c)
    IN  CHOOSE m \in {box[f][j] : f \in F} :
          /\ Cardinality({f \in F : box[f][j] < m}) <= k - 1
          /\ Cardinality({f \in F : box[f][j] <= m}) >= k

\* floor(w * padding), padding in eighths.
FloorOfPadded(w) == CHOOSE q \in 0..(w * padding) : 8 * q <= w * padding /\ w * padding < 8 * (q + 1)

\* The region the rule gives candidate c when the median of its n boxes is
\* their k-th smallest coordinate.
RegionFromMedian(c, k) ==
    LET mx == OrderStatistic(c, 1, k)
        my == OrderStatistic(c, 2, k)
        mw == OrderStatistic(c, 3, k)
        mh == OrderStatistic(c, 4, k)
        px == FloorOfPadded(mw)
        py == FloorOfPadded(mh)
    IN  <<IF mx - px > 0 THEN mx - px ELSE 0, IF my - py > 0 THEN my - py ELSE 0,
          mw + 2 * px, mh + 2 * py>>

\* C5 as stated: the median of an even number of boxes is the lower of the
\* two middle elements.
C5_RegionFromLowerMedian ==
    \A i \in Returned :
      LET c == result.watermarks[i]
          n == Cardinality(BoxedFrames(c))
      IN  IF n = 0 THEN c.region = None
          ELSE c.region = RegionFromMedian(c, (n + 1) \div 2)

\* C5, amended: a candidate with no recorded box has no region; otherwise the
\* region is (max(0, mx - px), max(0, my - py), mw + 2*px, mh + 2*py) with
\* px = floor(mw * padding), py = floor(mh * padding) and mx, my, mw, mh the
\* elements at index n // 2 of the ascending sorts of the n boxes' x, y,
\* width and height: the middle element for an odd n, the upper of the two
\* middle elements for an even n.
C5_RegionFromUpperMedian ==
    \A i \in Returned :
      LET c == result.watermarks[i]
          n == Cardinality(BoxedFrames(c))
      IN  IF n = 0 THEN c.region = None
          ELSE c.region = RegionFromMedian(c, (n \div 2) + 1)

\* Two boxes, Box1 and Box2, padding 1/8: the upper medians are x = 3,
\* y = 1, w = 16, h = 24, so the region is (1, 0, 20, 30).
C5_Witness ==
    /\ pc = "done"
    /\ padding = 1
    /\ region = None
    /\ Len(result.watermarks) = 1
    /\ Cardinality(BoxedFrames(result.watermarks[1])) = 2
    /\ \E f, g \in BoxedFrames(result.watermarks[1]) :
         /\ StatsOf(TextA).frame_bbox[f] = Box1
         /\ StatsOf(TextA).frame_bbox[g] = Box2
    /\ result.watermarks[1].region = <<1, 0, 20, 30>>

\* -------------------------------------------------------------------------
\* The ranking: two texts, each at most once per frame and in either order,
\* the second at two confidences.
\* -------------------------------------------------------------------------
MaxRankFrames == 4

HitB(c) == [text |-> TextB, conf |-> c, box |-> Box2]
HitA60 == [text |-> TextA, conf |-> 60, box |-> Box1]

RankReports ==
    {<<>>, <<HitA60>>}
      \cup {<<HitB(c)>> : c \in {40, 90}}
      \cup {<<HitA60, HitB(c)>> : c \in {40, 90}}
      \cup {<<HitB(c), HitA60>> : c \in {40, 90}}

InitRank ==
    \E n \in 1..MaxRankFrames :
      \E vid \in Videos(n, Readable(RankReports)) \cup UniformVideos(n, Failures) :
        Start(NoArg, "tesseract", n, 1, 30, 12, vid)

SpecRank == InitRank /\ [][Next]_vars

\* Whether candidate a's (appears_consistently, frequency, confidence) is at
\* least b's, in lexicographic order.
KeyAtLeast(a, b) ==
    \/ a.appears_consistently /\ ~b.appears_consistently
    \/ /\ a.appears_consistently = b.appears_consistently
       /\ a.frequency > b.frequency
    \/ /\ a.appears_consistently = b.appears_consistently
       /\ a.frequency = b.frequency
       /\ a.confidence.num * b.confidence.den >= b.confidence.num * a.confidence.den

\* C7: the returned list is in descending order of (appears_consistently,
\* frequency, confidence).
C7_RankedDescending ==
    \A i, j \in Returned :
      i < j => KeyAtLeast(result.watermarks[i], result.watermarks[j])

\* B was seen first and A is ranked first: A is consistent, B is not.
C7_Witness ==
    /\ pc = "done"
    /\ Len(result.watermarks) = 2
    /\ text_stats[1].text = TextB
    /\ result.watermarks[1].text = TextA
    /\ result.watermarks[1].appears_consistently
    /\ ~result.watermarks[2].appears_consistently

\* -------------------------------------------------------------------------
\* The decoder handle (Spec: every frame may fail to decode, fail in the
\* crop or the conversion, fail in OCR, or be read).
\* -------------------------------------------------------------------------

\* C11: a run that opened the video never stops with the handle still open:
\* whichever sampled frames fail in a per-frame step, the run goes through
\* the remaining frames, releases the handle and aggregates; no per-frame
\* failure ends the run.
C11_HandleReleasedOnEveryPath ==
    (cap # "none" /\ pc \notin {"sample", "frames"}) =>
        (pc = "done" /\ cap = "released")

\* A run in which a frame failed to decode and the engine raised on another,
\* and which went on to release the handle and return.
C11_Witness ==
    /\ pc = "done"
    /\ cap = "released"
    /\ Len(frame_indices) >= 2
    /\ decoded >= 1
    /\ decoded < Len(frame_indices)
    /\ err = "Warning: OCR error"

====
